---- MODULE Spec2Model ----
(***************************************************************************)
(* A model of spoting: the token store (collect_tokens) and the paginated  *)
(* resource fetchers built on query_api.                                   *)
(*                                                                         *)
(* Time is counted in ticks of 1/TicksPerSec second, so that the int()     *)
(* truncations of collect_tokens act on fractional seconds as they do on   *)
(* Python floats.  The token file is a sequence of characters; a token     *)
(* with identity k is the character k repeated, a negative character is a  *)
(* byte that does not decode.                                              *)
(***************************************************************************)
EXTENDS Integers, Sequences, FiniteSets, TLC

-----------------------------------------------------------------------------
(* Bounds of the model *)

TicksPerSec == 2
MaxSmallTicks == 2
MaxJumps == 1
MaxCalls == 2
MaxTokLen == 2

MaxPages == 3
MaxPageItems == 2
MaxIds == 2
MaxOdd == 1

(* Program constants *)

TTL == 3600
PageLimit == 50
SafeLimit == 1000

-----------------------------------------------------------------------------
VARIABLES
    now,        \* time.time(), in ticks
    fexists,    \* the token file exists
    freadable,  \* its mode lets this user read it
    fwritable,  \* its mode lets this user write it
    fcontent,   \* its content, a sequence of characters
    fmtime,     \* os.path.getmtime(TOKEN_FILE), in ticks
    pc,         \* per process: position in collect_tokens
    refresh_token, \* per process: the local refresh_token
    token,      \* per process: the local token
    ret,        \* per process: the value returned by the last finished call
    exc,        \* per process: the exception the last call raised, or "none"
    calls,      \* per process: calls started
    chk,        \* per process: what the file looked like at the call's check
    nauth,      \* per process: prompt_for_user_token invocations of this call
    nwrite,     \* per process: writes to the token file of this call
    issued,     \* tokens handed out by the authorization service so far
    lastWriter, \* the process whose write reached the file last (0: none)
    hist,       \* per process: the finished calls, oldest first
    fn,         \* the fetcher being run ("none" before the call)
    fpc,        \* its position: idle, profile, loop, done, raised
    maxArg,     \* its max argument (0: not given)
    ids,        \* its list of ids (fetch_*_from_ids)
    srvN,       \* the number of items the server holds for the collection
    limit,      \* the local limit
    offset,     \* the local offset
    cap,        \* the local max_playlists / max_tracks
    after,      \* the local after
    acc,        \* the list being accumulated
    result,     \* the list returned
    fexc,       \* the exception raised, or "none"
    reqs,       \* the requests issued, in order
    resps       \* the responses received, in order

tokVars == <<now, fexists, freadable, fwritable, fcontent, fmtime, pc,
             refresh_token, token, ret, exc, calls, chk, nauth, nwrite,
             issued, lastWriter, hist>>

fetchVars == <<fn, fpc, maxArg, ids, srvN, limit, offset, cap, after, acc,
               result, fexc, reqs, resps>>

vars == <<tokVars, fetchVars>>

Procs == {1, 2}

-----------------------------------------------------------------------------
(* Pure helpers *)

\* Python's int() on a number of ticks: whole seconds, truncated toward zero.
IntSeconds(t) == IF t >= 0 THEN t \div TicksPerSec ELSE -((-t) \div TicksPerSec)

\* int(time.time() - int(os.path.getmtime(TOKEN_FILE))), in seconds.
TokenAge(t, mtime) == IntSeconds(t - IntSeconds(mtime) * TicksPerSec)

\* The condition of line 63.
IsStale(t, mtime) == TokenAge(t, mtime) > TTL

\* The token the authorization service hands out as its k-th, of length len.
MkToken(k, len) == [i \in 1..len |-> k]

\* str.decode of the file's bytes succeeds.
Decodable(c) == \A i \in 1..Len(c) : c[i] >= 0

\* A write of data at offset 0 of a file holding old (no O_APPEND, no
\* truncation at write time): data, then what old holds beyond it.
WriteAtZero(data, old) ==
    IF Len(old) > Len(data)
    THEN data \o SubSeq(old, Len(data) + 1, Len(old))
    ELSE data

NoCheck == [missing |-> FALSE, age |-> 0, readable |-> FALSE, content |-> <<>>]

Jump == TTL * TicksPerSec
Now0 == (TTL + 2) * TicksPerSec

\* Ages (in ticks) of the token file the model starts from: fresh, and every
\* tick around the freshness window.
InitAges == {0} \cup ((Jump - 1)..(Jump + TicksPerSec + 1))

InitContents == {MkToken(0, MaxTokLen), <<-1>>}

-----------------------------------------------------------------------------
(* The token store: collect_tokens, one step per system call *)

\* No token file yet.
FileMissing ==
    /\ fexists = FALSE
    /\ freadable = TRUE
    /\ fwritable = TRUE
    /\ fcontent = <<>>
    /\ fmtime = 0

\* A token file left by an earlier run, or by anyone else.
FilePresent ==
    /\ fexists = TRUE
    /\ freadable \in BOOLEAN
    /\ fwritable \in BOOLEAN
    /\ fcontent \in InitContents
    /\ \E a \in InitAges : fmtime = Now0 - a

\* No process has called collect_tokens yet.
ProcsIdle ==
    /\ now = Now0
    /\ pc = [p \in Procs |-> "idle"]
    /\ refresh_token = [p \in Procs |-> FALSE]
    /\ token = [p \in Procs |-> <<>>]
    /\ ret = [p \in Procs |-> <<>>]
    /\ exc = [p \in Procs |-> "none"]
    /\ calls = [p \in Procs |-> 0]
    /\ chk = [p \in Procs |-> NoCheck]
    /\ nauth = [p \in Procs |-> 0]
    /\ nwrite = [p \in Procs |-> 0]
    /\ issued = 0
    /\ lastWriter = 0
    /\ hist = [p \in Procs |-> <<>>]

TokInit == ProcsIdle /\ (FileMissing \/ FilePresent)

\* The record of a finished call.
CallRecord(p, ok, value) ==
    [ok |-> ok, refreshed |-> refresh_token[p], value |-> value,
     nauth |-> nauth[p], nwrite |-> nwrite[p], chk |-> chk[p]]

\* An exception leaves collect_tokens.
RaiseIn(p, e) ==
    /\ pc' = [pc EXCEPT ![p] = "raised"]
    /\ exc' = [exc EXCEPT ![p] = e]
    /\ hist' = [hist EXCEPT ![p] = Append(@, CallRecord(p, FALSE, <<>>))]

\* Lines 53-59: a call starts.
Call(p) ==
    /\ pc[p] \in {"idle", "done", "raised"}
    /\ calls[1] + calls[2] < MaxCalls
    /\ calls' = [calls EXCEPT ![p] = @ + 1]
    /\ pc' = [pc EXCEPT ![p] = "check"]
    /\ refresh_token' = [refresh_token EXCEPT ![p] = FALSE]
    /\ token' = [token EXCEPT ![p] = <<>>]
    /\ ret' = [ret EXCEPT ![p] = <<>>]
    /\ exc' = [exc EXCEPT ![p] = "none"]
    /\ chk' = [chk EXCEPT ![p] = NoCheck]
    /\ nauth' = [nauth EXCEPT ![p] = 0]
    /\ nwrite' = [nwrite EXCEPT ![p] = 0]
    /\ UNCHANGED <<now, fexists, freadable, fwritable, fcontent, fmtime,
                   issued, lastWriter, hist>>
    /\ UNCHANGED fetchVars

\* Lines 61-66: getmtime raises on a missing file (stat needs no read
\* permission on the file itself); any exception means refresh.
Check(p) ==
    /\ pc[p] = "check"
    /\ LET r == IF fexists THEN IsStale(now, fmtime) ELSE TRUE
       IN /\ refresh_token' = [refresh_token EXCEPT ![p] = r]
          /\ pc' = [pc EXCEPT ![p] = IF r THEN "auth" ELSE "read"]
    /\ chk' = [chk EXCEPT ![p] =
                 [missing |-> ~fexists,
                  age |-> IF fexists THEN now - fmtime ELSE 0,
                  readable |-> fexists /\ freadable /\ Decodable(fcontent),
                  content |-> fcontent]]
    /\ UNCHANGED <<now, fexists, freadable, fwritable, fcontent, fmtime,
                   token, ret, exc, calls, nauth, nwrite, issued,
                   lastWriter, hist>>
    /\ UNCHANGED fetchVars

\* Line 70: util.prompt_for_user_token hands out a new token.
Auth(p) ==
    /\ pc[p] = "auth"
    /\ \E len \in 1..MaxTokLen :
          token' = [token EXCEPT ![p] = MkToken(issued + 1, len)]
    /\ issued' = issued + 1
    /\ nauth' = [nauth EXCEPT ![p] = @ + 1]
    /\ pc' = [pc EXCEPT ![p] = "open"]
    /\ UNCHANGED <<now, fexists, freadable, fwritable, fcontent, fmtime,
                   refresh_token, ret, exc, calls, chk, nwrite,
                   lastWriter, hist>>
    /\ UNCHANGED fetchVars

\* Line 71: open(TOKEN_FILE, "w") creates the file or truncates it
\* (O_CREAT | O_TRUNC); it raises on a file this user may not write.
OpenW(p) ==
    /\ pc[p] = "open"
    /\ IF fexists /\ ~fwritable
       THEN /\ RaiseIn(p, "PermissionError")
            /\ UNCHANGED <<fexists, freadable, fwritable, fcontent, fmtime>>
       ELSE /\ fexists' = TRUE
            /\ freadable' = (IF fexists THEN freadable ELSE TRUE)
            /\ fwritable' = TRUE
            /\ fcontent' = <<>>
            /\ fmtime' = now
            /\ pc' = [pc EXCEPT ![p] = "write"]
            /\ UNCHANGED <<exc, hist>>
    /\ UNCHANGED <<now, refresh_token, token, ret, calls, chk, nauth,
                   nwrite, issued, lastWriter>>
    /\ UNCHANGED fetchVars

\* Line 72 and the end of the with block: the buffered token is written
\* at the descriptor's offset 0 when the file is closed.
WriteClose(p) ==
    /\ pc[p] = "write"
    /\ fcontent' = WriteAtZero(token[p], fcontent)
    /\ fmtime' = now
    /\ nwrite' = [nwrite EXCEPT ![p] = @ + 1]
    /\ lastWriter' = p
    /\ pc' = [pc EXCEPT ![p] = "return"]
    /\ UNCHANGED <<now, fexists, freadable, fwritable, refresh_token, token,
                   ret, exc, calls, chk, nauth, issued, hist>>
    /\ UNCHANGED fetchVars

\* Lines 74-75, outside the try block: open(TOKEN_FILE, "r") raises on a
\* file this user may not read, read() on bytes that do not decode.
ReadFile(p) ==
    /\ pc[p] = "read"
    /\ IF ~freadable
       THEN /\ RaiseIn(p, "PermissionError")
            /\ UNCHANGED token
       ELSE IF ~Decodable(fcontent)
       THEN /\ RaiseIn(p, "UnicodeDecodeError")
            /\ UNCHANGED token
       ELSE /\ token' = [token EXCEPT ![p] = fcontent]
            /\ pc' = [pc EXCEPT ![p] = "return"]
            /\ UNCHANGED <<exc, hist>>
    /\ UNCHANGED <<now, fexists, freadable, fwritable, fcontent, fmtime,
                   refresh_token, ret, calls, chk, nauth, nwrite, issued,
                   lastWriter>>
    /\ UNCHANGED fetchVars

\* Line 77.
Return(p) ==
    /\ pc[p] = "return"
    /\ ret' = [ret EXCEPT ![p] = token[p]]
    /\ pc' = [pc EXCEPT ![p] = "done"]
    /\ hist' = [hist EXCEPT ![p] = Append(@, CallRecord(p, TRUE, token[p]))]
    /\ UNCHANGED <<now, fexists, freadable, fwritable, fcontent, fmtime,
                   refresh_token, token, exc, calls, chk, nauth, nwrite,
                   issued, lastWriter>>
    /\ UNCHANGED fetchVars

collect_tokens(p) ==
    \/ Call(p)
    \/ Check(p)
    \/ Auth(p)
    \/ OpenW(p)
    \/ WriteClose(p)
    \/ ReadFile(p)
    \/ Return(p)

\* The clock advances by one tick.
Tick ==
    /\ (now - Now0) % Jump < MaxSmallTicks
    /\ now' = now + 1
    /\ UNCHANGED <<fexists, freadable, fwritable, fcontent, fmtime, pc,
                   refresh_token, token, ret, exc, calls, chk, nauth,
                   nwrite, issued, lastWriter, hist>>
    /\ UNCHANGED fetchVars

\* The clock advances by the length of the freshness window.
Wait ==
    /\ (now - Now0) \div Jump < MaxJumps
    /\ now' = now + Jump
    /\ UNCHANGED <<fexists, freadable, fwritable, fcontent, fmtime, pc,
                   refresh_token, token, ret, exc, calls, chk, nauth,
                   nwrite, issued, lastWriter, hist>>
    /\ UNCHANGED fetchVars

-----------------------------------------------------------------------------
(* The remote API, as query_api sees it *)

Statuses == {200, 300, 404, 429, 500}

\* A raise_for_status() that takes only server errors for errors.
RaiseForStatus5xx(status) == 500 <= status /\ status < 600

\* Response.raise_for_status() raises HTTPError for a 4xx or a 5xx status.
RaiseForStatus(status) == 400 <= status /\ status < 600

\* query_api raises: raise_for_status(), or json() on a body that is no JSON.
QueryRaises(resp) == RaiseForStatus(resp.status) \/ ~resp.json

QueryError(resp) ==
    IF RaiseForStatus(resp.status) THEN "HTTPError" ELSE "JSONDecodeError"

\* The outcomes of one request.  The server answers at most MaxOdd requests
\* of a call with a status other than 200 that query_api lets through.
OddCount(rs) == Cardinality({i \in 1..Len(rs) : rs[i].status # 200})

HttpOutcomes(rs) ==
    {o \in [status : Statuses, json : BOOLEAN] :
        \/ o.status = 200
        \/ o.status >= 400
        \/ ~o.json
        \/ OddCount(rs) < MaxOdd}

\* A response: the outcome o and, when query_api returns it, the page.
Response(o, items, aft) ==
    IF RaiseForStatus(o.status) \/ ~o.json
    THEN [status |-> o.status, json |-> o.json, items |-> <<>>, after |-> ""]
    ELSE [status |-> o.status, json |-> o.json, items |-> items, after |-> aft]

Request(url, lim, off, aft, id) ==
    [url |-> url, limit |-> lim, offset |-> off, after |-> aft, id |-> id]

Min(a, b) == IF a <= b THEN a ELSE b

\* The server's page of a collection of n items, numbered 1..n.
Page(n, lim, off) ==
    IF n - off <= 0 \/ lim <= 0
    THEN <<>>
    ELSE [i \in 1..Min(lim, n - off) |-> off + i]

\* The items of the j-th page of a cursor-addressed collection.
CursorPage(j, k) == [i \in 1..k |-> j * (MaxPageItems + 1) + i]

\* The values of cursors.after: a cursor, "", null, or no such key.
NextCursors == {"X", "Y"}
EndCursors == {"", "None", "ABSENT"}

MaxArgs == {0, 1, 10, 49, 50, 51, 75, 100}
ServerSizes == {0, 1, 10, 50, 75, 100, 120, 999, 1000, 1050}
IdLists == UNION {[1..n -> 1..2] : n \in 0..MaxIds}

-----------------------------------------------------------------------------
(* The resource fetchers, one step per request *)

FetchInit ==
    /\ fn = "none"
    /\ fpc = "idle"
    /\ maxArg = 0
    /\ ids = <<>>
    /\ srvN = 0
    /\ limit = 0
    /\ offset = 0
    /\ cap = 0
    /\ after = ""
    /\ acc = <<>>
    /\ result = <<>>
    /\ fexc = "none"
    /\ reqs = <<>>
    /\ resps = <<>>

\* query_api: the request goes out, the response comes back.
query_api(req, resp) ==
    /\ reqs' = Append(reqs, req)
    /\ resps' = Append(resps, resp)

\* The exception of query_api leaves the fetcher.
Propagate(resp) ==
    /\ fpc' = "raised"
    /\ fexc' = QueryError(resp)
    /\ UNCHANGED <<limit, offset, after, acc, result>>

\* return of the accumulated list.
ReturnList ==
    /\ fpc' = "done"
    /\ result' = acc
    /\ UNCHANGED <<limit, offset, after, acc, fexc>>

\* A test of after against '' alone.
FalsyEmptyOnly(aft) == aft = ""

\* Python's truth value of after: '' and None are false.
Falsy(aft) == aft \in {"", "None"}

\* Lines 209-211 and 240-242: the stopping bound.
MaxItems(max) == IF max # 0 THEN max ELSE SafeLimit

\* A page size that ignores max, as find_user_playlist_tracks has it.
PlaylistsLimitFixed(max) == PageLimit

\* Lines 207, 210-213: the page size of find_user_playlists.
PlaylistsLimit(max) == IF max # 0 /\ PageLimit > max THEN max ELSE PageLimit

\* Line 238: the page size of find_user_playlist_tracks.
TracksLimit(max) == PageLimit

\* A loop condition that is off by one.
LoopGuardLe(off, bound) == off <= bound

\* Lines 215, 251: the loop condition.
LoopGuard(off, bound) == off < bound

\* Lines 221, 257.
NextOffset(off, lim) == off + lim

\* Lines 205-213.
PlaylistsCall ==
    /\ fpc = "idle"
    /\ \E m \in MaxArgs, n \in ServerSizes :
          /\ maxArg' = m
          /\ srvN' = n
          /\ limit' = PlaylistsLimit(m)
          /\ cap' = MaxItems(m)
    /\ fn' = "playlists"
    /\ fpc' = "loop"
    /\ UNCHANGED <<ids, offset, after, acc, result, fexc, reqs, resps>>
    /\ UNCHANGED tokVars

\* Lines 215-223: one turn of the loop, or the return after it.
PlaylistsLoop ==
    /\ fn = "playlists"
    /\ fpc = "loop"
    /\ IF LoopGuard(offset, cap)
       THEN \E o \in HttpOutcomes(resps) :
              LET resp == Response(o, Page(srvN, limit, offset), "")
              IN /\ query_api(Request("/me/playlists", limit, offset, "", 0),
                              resp)
                 /\ IF QueryRaises(resp)
                    THEN Propagate(resp)
                    ELSE IF resp.items = <<>>
                    THEN ReturnList
                    ELSE /\ acc' = acc \o resp.items
                         /\ offset' = NextOffset(offset, limit)
                         /\ UNCHANGED <<fpc, limit, after, result, fexc>>
       ELSE /\ ReturnList
            /\ UNCHANGED <<reqs, resps>>
    /\ UNCHANGED <<fn, maxArg, ids, srvN, cap>>
    /\ UNCHANGED tokVars

\* Lines 236-245.
TracksCall ==
    /\ fpc = "idle"
    /\ \E m \in MaxArgs, n \in ServerSizes :
          /\ maxArg' = m
          /\ srvN' = n
          /\ limit' = TracksLimit(m)
          /\ cap' = MaxItems(m)
    /\ fn' = "tracks"
    /\ fpc' = "profile"
    /\ UNCHANGED <<ids, offset, after, acc, result, fexc, reqs, resps>>
    /\ UNCHANGED tokVars

\* Lines 117, 186, 249: find_user_profile(token)['id'].
find_user_profile ==
    /\ fpc = "profile"
    /\ \E o \in HttpOutcomes(resps) :
          LET resp == Response(o, <<>>, "")
          IN /\ query_api(Request("/me", 0, 0, "", 0), resp)
             /\ IF QueryRaises(resp)
                THEN Propagate(resp)
                ELSE /\ fpc' = "loop"
                     /\ UNCHANGED <<limit, offset, after, acc, result, fexc>>
    /\ UNCHANGED <<fn, maxArg, ids, srvN, cap>>
    /\ UNCHANGED tokVars

\* Lines 251-259.
TracksLoop ==
    /\ fn = "tracks"
    /\ fpc = "loop"
    /\ IF LoopGuard(offset, cap)
       THEN \E o \in HttpOutcomes(resps) :
              LET resp == Response(o, Page(srvN, limit, offset), "")
              IN /\ query_api(Request("/users/playlists/tracks", limit,
                                      offset, "", 0), resp)
                 /\ IF QueryRaises(resp)
                    THEN Propagate(resp)
                    ELSE IF resp.items = <<>>
                    THEN ReturnList
                    ELSE /\ acc' = acc \o resp.items
                         /\ offset' = NextOffset(offset, limit)
                         /\ UNCHANGED <<fpc, limit, after, result, fexc>>
       ELSE /\ ReturnList
            /\ UNCHANGED <<reqs, resps>>
    /\ UNCHANGED <<fn, maxArg, ids, srvN, cap>>
    /\ UNCHANGED tokVars

\* Lines 152-155.
ArtistsCall ==
    /\ fpc = "idle"
    /\ fn' = "artists"
    /\ fpc' = "loop"
    /\ limit' = PageLimit
    /\ UNCHANGED <<maxArg, ids, srvN, offset, cap, after, acc, result, fexc,
                   reqs, resps>>
    /\ UNCHANGED tokVars

\* Lines 157-170: one turn of the loop.  The server answers its j-th page
\* with up to MaxPageItems items and any value of cursors.after; its
\* MaxPages-th page is its last.
ArtistsLoop ==
    /\ fn = "artists"
    /\ fpc = "loop"
    /\ \E o \in HttpOutcomes(resps), k \in 0..MaxPageItems,
          a \in (IF Len(reqs) + 1 < MaxPages THEN NextCursors ELSE {})
                \cup EndCursors :
          LET resp == Response(o, CursorPage(Len(reqs) + 1, k), a)
          IN /\ query_api(Request("/me/following", limit, 0,
                                  IF Falsy(after) THEN "" ELSE after, 0),
                          resp)
             /\ IF QueryRaises(resp)
                THEN Propagate(resp)
                ELSE IF resp.after = "ABSENT"
                THEN /\ fpc' = "raised"
                     /\ fexc' = "KeyError"
                     /\ acc' = acc \o resp.items
                     /\ UNCHANGED <<limit, offset, after, result>>
                ELSE IF Falsy(resp.after)
                THEN /\ fpc' = "done"
                     /\ acc' = acc \o resp.items
                     /\ after' = resp.after
                     /\ result' = acc \o resp.items
                     /\ UNCHANGED <<limit, offset, fexc>>
                ELSE /\ acc' = acc \o resp.items
                     /\ after' = resp.after
                     /\ UNCHANGED <<fpc, limit, offset, result, fexc>>
    /\ UNCHANGED <<fn, maxArg, ids, srvN, cap>>
    /\ UNCHANGED tokVars

\* Lines 182-186.
PlaylistsFromIdsCall ==
    /\ fpc = "idle"
    /\ ids' \in IdLists
    /\ fn' = "playlists_from_ids"
    /\ fpc' = "profile"
    /\ UNCHANGED <<maxArg, srvN, limit, offset, cap, after, acc, result,
                   fexc, reqs, resps>>
    /\ UNCHANGED tokVars

\* Line 270.
TracksFromIdsCall ==
    /\ fpc = "idle"
    /\ ids' \in IdLists
    /\ fn' = "tracks_from_ids"
    /\ fpc' = "loop"
    /\ UNCHANGED <<maxArg, srvN, limit, offset, cap, after, acc, result,
                   fexc, reqs, resps>>
    /\ UNCHANGED tokVars

\* Lines 188-193 and 273-278: one turn of the for loop, or the return.
FromIdsLoop ==
    /\ fn \in {"playlists_from_ids", "tracks_from_ids"}
    /\ fpc = "loop"
    /\ IF Len(acc) < Len(ids)
       THEN \E o \in HttpOutcomes(resps) :
              LET id == ids[Len(acc) + 1]
                  resp == Response(o, <<id>>, "")
              IN /\ query_api(Request(IF fn = "tracks_from_ids"
                                      THEN "/tracks"
                                      ELSE "/users/playlists",
                                      0, 0, "", id), resp)
                 /\ IF QueryRaises(resp)
                    THEN Propagate(resp)
                    ELSE /\ acc' = acc \o resp.items
                         /\ UNCHANGED <<fpc, limit, offset, after, result,
                                        fexc>>
       ELSE /\ ReturnList
            /\ UNCHANGED <<reqs, resps>>
    /\ UNCHANGED <<fn, maxArg, ids, srvN, cap>>
    /\ UNCHANGED tokVars

Fetch ==
    \/ PlaylistsCall
    \/ PlaylistsLoop
    \/ TracksCall
    \/ find_user_profile
    \/ TracksLoop
    \/ ArtistsCall
    \/ ArtistsLoop
    \/ PlaylistsFromIdsCall
    \/ TracksFromIdsCall
    \/ FromIdsLoop

-----------------------------------------------------------------------------
(* Specifications *)

\* One process calling collect_tokens again and again.
SeqInit == TokInit /\ FetchInit
SeqNext == Tick \/ Wait \/ collect_tokens(1)
SpecSeq == SeqInit /\ [][SeqNext]_vars

\* Two processes calling collect_tokens with no coordination.
ConcNext == Tick \/ Wait \/ \E p \in Procs : collect_tokens(p)
SpecConc == SeqInit /\ [][ConcNext]_vars

\* One call of one fetcher against the remote API.
FetchSpecInit == ProcsIdle /\ FileMissing /\ FetchInit
SpecFetch == FetchSpecInit /\ [][Fetch]_vars

-----------------------------------------------------------------------------
(* Properties of the token store *)

Finished(p) == pc[p] \in {"done", "raised"}

Window == TTL * TicksPerSec

\* C1: for every readable token file, a call that finds it older than 3600
\* seconds (now minus modification time) invokes prompt_for_user_token
\* exactly once, and a call that finds it at most 3600 seconds old returns
\* the file's contents, invokes no authorization and writes nothing.
C1_TokenFreshness ==
    \A p \in Procs :
        (Finished(p) /\ ~chk[p].missing /\ chk[p].readable) =>
            IF chk[p].age > Window
            THEN nauth[p] = 1
            ELSE /\ pc[p] = "done"
                 /\ ret[p] = chk[p].content
                 /\ nauth[p] = 0
                 /\ nwrite[p] = 0

\* C2: a call that finds the token file missing or unreadable ends by
\* returning a newly obtained token, never by raising.
C2_FileErrorsRefresh ==
    \A p \in Procs :
        (Finished(p) /\ (chk[p].missing \/ ~chk[p].readable)) =>
            /\ pc[p] = "done"
            /\ nauth[p] = 1
            /\ ret[p] = token[p]
            /\ refresh_token[p]

\* C3: over any sequence of calls of one process, the returned token is the
\* file's content after the call, the authorization call happens only on
\* calls that find the file missing, unreadable or older than 3600 seconds,
\* and after a refresh every later call that finds the file at most 3600
\* seconds old returns the refreshed token without a further authorization.
C3_RefreshLifecycle ==
    LET h == hist[1]
    IN /\ pc[1] = "done" => ret[1] = fcontent
       /\ \A i \in 1..Len(h) :
             h[i].nauth > 0 =>
                 \/ h[i].chk.missing
                 \/ ~h[i].chk.readable
                 \/ h[i].chk.age > Window
       /\ \A i \in 1..Len(h) : \A j \in (i + 1)..Len(h) :
             (/\ h[i].ok
              /\ h[i].refreshed
              /\ \A k \in (i + 1)..j : h[k].chk.age <= Window) =>
                 /\ h[j].ok
                 /\ h[j].value = h[i].value
                 /\ h[j].nauth = 0

\* C10: when two processes have both refreshed the token in one call each
\* and both have finished, each has returned the token it obtained itself
\* and the token file holds exactly the token of the process that wrote
\* last.
C10_LastWriterWins ==
    (/\ pc[1] = "done" /\ pc[2] = "done"
     /\ calls[1] = 1 /\ calls[2] = 1
     /\ refresh_token[1] /\ refresh_token[2]) =>
        /\ \A p \in Procs : ret[p] = token[p] /\ nauth[p] = 1
        /\ ret[1] # ret[2]
        /\ fcontent = ret[lastWriter]

-----------------------------------------------------------------------------
(* Properties of the fetchers *)

RECURSIVE ConcatItems(_)
ConcatItems(rs) ==
    IF rs = <<>> THEN <<>>
    ELSE ConcatItems(SubSeq(rs, 1, Len(rs) - 1)) \o rs[Len(rs)].items

\* C4: with no max given, find_user_playlists requests offsets 0, 50, 100,
\* ... with limit 50, never more than 20 times, and returns the first
\* min(N, 1000) items of the server's N in order, after one request per
\* non-empty page and one for the empty page that ends it (20 requests
\* when the cap ends it).
C4_OffsetPagination ==
    (fn = "playlists" /\ maxArg = 0) =>
        /\ Len(reqs) <= 20
        /\ \A i \in 1..Len(reqs) :
              reqs[i].limit = 50 /\ reqs[i].offset = 50 * (i - 1)
        /\ fpc = "done" =>
              /\ Len(result) = Min(srvN, 1000)
              /\ \A i \in 1..Len(result) : result[i] = i
              /\ Len(reqs) = Min((srvN + 49) \div 50 + 1, 20)

C4_Witness ==
    /\ fn = "playlists" /\ maxArg = 0 /\ fpc = "done"
    /\ srvN = 100
    /\ Len(reqs) = 3
    /\ Len(result) = 100
    /\ resps[3].items = <<>>

\* C5: with 0 < max < 50, every request of find_user_playlists carries
\* limit=max and offset=0, and exactly one request is issued.
C5_MaxShrinksLimit ==
    (fn = "playlists" /\ 0 < maxArg /\ maxArg < 50) =>
        /\ \A i \in 1..Len(reqs) :
              reqs[i].limit = maxArg /\ reqs[i].offset = 0
        /\ Len(reqs) <= 1
        /\ fpc = "done" => Len(reqs) = 1

C5_Witness ==
    /\ fn = "playlists" /\ maxArg = 10 /\ fpc = "done"
    /\ srvN = 100
    /\ reqs = <<Request("/me/playlists", 10, 0, "", 0)>>
    /\ Len(result) = 10

\* C6: with 0 < max < 50, every tracks request of find_user_playlist_tracks
\* carries limit=max, and the call returns at most max tracks.
C6_TracksMaxShrinksLimit ==
    (fn = "tracks" /\ 0 < maxArg /\ maxArg < 50) =>
        /\ \A i \in 1..Len(reqs) :
              reqs[i].url = "/users/playlists/tracks" =>
                  reqs[i].limit = maxArg
        /\ fpc = "done" => Len(result) <= maxArg

\* C7: find_user_playlists returns at most max playlists, and at most 1000
\* with no max given.
C7_MaxBoundsResult ==
    (fn = "playlists" /\ fpc = "done") =>
        Len(result) <= (IF maxArg > 0 THEN maxArg ELSE 1000)

\* C8 as stated: find_user_followed_artists stops at the first page whose
\* after is empty or absent, and returns the concatenation of the pages.
C8_StopsOnEmptyOrAbsent ==
    (/\ fn = "artists"
     /\ resps # <<>>
     /\ resps[Len(resps)].status < 400
     /\ resps[Len(resps)].json
     /\ resps[Len(resps)].after \in {"", "None", "ABSENT"}) =>
        /\ fpc = "done"
        /\ result = ConcatItems(resps)

\* C8 as amended: the first request of find_user_followed_artists carries
\* no after, each later one the after of the page before; the loop stops at
\* the first page whose after is '' or null, after as many requests as
\* pages, and returns the concatenation of the pages in request order; a
\* page whose cursors hold no after key at all makes the call raise
\* KeyError, with no further request.
C8_CursorPagination ==
    fn = "artists" =>
        /\ Len(reqs) = Len(resps)
        /\ \A i \in 1..Len(reqs) :
              /\ reqs[i].url = "/me/following"
              /\ reqs[i].after = (IF i = 1 THEN "" ELSE resps[i - 1].after)
              /\ i > 1 =>
                    /\ resps[i - 1].status < 400
                    /\ resps[i - 1].json
                    /\ resps[i - 1].after \notin {"", "None", "ABSENT"}
        /\ (/\ resps # <<>>
            /\ resps[Len(resps)].status < 400
            /\ resps[Len(resps)].json) =>
              /\ resps[Len(resps)].after \in {"", "None"} =>
                    fpc = "done" /\ result = ConcatItems(resps)
              /\ resps[Len(resps)].after = "ABSENT" =>
                    fpc = "raised" /\ fexc = "KeyError"
        /\ fpc = "done" => resps[Len(resps)].after \in {"", "None"}

C8_Witness ==
    /\ fn = "artists" /\ fpc = "done"
    /\ Len(reqs) = 2
    /\ resps[1].after = "X"
    /\ resps[2].after = ""
    /\ reqs[2].after = "X"
    /\ Len(result) = 2 * MaxPageItems

====
